---- MODULE Spec2Model ----
(***************************************************************************)
(* A model of the "six degrees" shortest-path service:                     *)
(*   - the adjacency store accessors of backend/sdow/database.py,          *)
(*   - the bidirectional breadth-first search they serve (the engine's own *)
(*     module, breadth_first_search, is imported by database.py but is not *)
(*     among the source files; it is modelled from sections 4.2 and 4.3 of *)
(*     the specification),                                                 *)
(*   - title resolution (Database.fetch_page),                             *)
(*   - the /paths request handler of backend/sdow/server.py with its       *)
(*     per-request connect_db / close_db hooks.                            *)
(* Four specifications share the module: Spec (one search against one      *)
(* links table), SpecStore (the bulk neighbour fetches against one links   *)
(* table), SpecPage (one title resolution against one pages and redirects  *)
(* table) and SpecServer (concurrent /paths requests).  Each leaves the    *)
(* variables of the others at their idle values.  FairSpec is Spec with    *)
(* the fairness of a call that keeps running once it has started.          *)
(***************************************************************************)
EXTENDS Integers, Sequences, FiniteSets, Bags, TLC

\* ------------------------------------------------------------------------
\* Bounds of the search model.
\* ------------------------------------------------------------------------
\* Page IDs are 1..NumNodes.
NumNodes == 4
\* A links table holds at most MaxEdges links.
MaxEdges == 4

\* Bounds of the title-resolution model: page IDs are 1..MaxPageId.
MaxPageId == 3
\* Bound of the server model: the requests in flight.
NumRequests == 2

VARIABLES
  links,            \* the links table: id -> its row
  source_page_id,   \* the arguments of compute_shortest_paths
  target_page_id,
  policy,           \* "cost" (the engine), or a forced direction
  bfs,              \* the state of the one search in progress
  cursor,           \* the last bulk neighbour fetch and the rows it returned
  pages,            \* the pages table: id -> [title, is_redirect]
  redirects,        \* the redirects table: source_id -> target_id
  page_title,       \* the (sanitized) title handed to fetch_page
  fetched_page,     \* the outcome of fetch_page
  database,         \* server.py's module global: the current handle, 0 before
                    \* the first connect_db
  connections,      \* the handles opened so far: handle -> "open" | "closed"
  requests,         \* the /paths requests: request -> its position and locals
  handle_log        \* per handle, the requests whose close_db closed it

search_vars == <<links, source_page_id, target_page_id, policy, bfs>>
store_vars == <<cursor>>
page_vars == <<pages, redirects, page_title, fetched_page>>
server_vars == <<database, connections, requests, handle_log>>
vars == <<search_vars, store_vars, page_vars, server_vars>>

Nodes == 1..NumNodes

\* A link is a pair of distinct pages <<from, to>>.
AllLinks == {e \in Nodes \X Nodes : e[1] # e[2]}

\* ------------------------------------------------------------------------
\* The links table.  A row holds, for one page, its outgoing and incoming
\* neighbour lists and the two precomputed counters.  A page that takes part
\* in a link has a row; a page with no link at all may have none.
\* ------------------------------------------------------------------------
LinksTable(E, ids) ==
  [id \in ids |->
     LET out == {e[2] : e \in {x \in E : x[1] = id}}
         inc == {e[1] : e \in {x \in E : x[2] = id}}
     IN  [outgoing_links |-> out,
          incoming_links |-> inc,
          outgoing_links_count |-> Cardinality(out),
          incoming_links_count |-> Cardinality(inc)]]

Linked(E) == {e[1] : e \in E} \cup {e[2] : e \in E}

\* The link set a table stores (read back from the outgoing lists).
Edges == {e \in Nodes \X Nodes :
            e[1] \in DOMAIN links /\ e[2] \in links[e[1]].outgoing_links}

RECURSIVE SumOver(_, _)
SumOver(S, f) ==
  IF S = {} THEN 0
  ELSE LET x == CHOOSE y \in S : TRUE IN f[x] + SumOver(S \ {x}, f)

\* str(tuple(page_ids)) of an empty collection is "()", and "id IN ()" is not
\* accepted by the database: cursor.execute raises.
sql_syntax_error(page_ids) == page_ids = {}

\* SELECT SUM(column) FROM links WHERE id IN page_ids; fetchone()[0].
\* SUM over no row is NULL, which the driver hands back as None.
fetch_links_count_helper(page_ids, incoming_or_outgoing_links_count) ==
  LET rows == page_ids \cap DOMAIN links
  IN  IF rows = {}
      THEN [none |-> TRUE, value |-> 0]
      ELSE [none |-> FALSE,
            value |-> SumOver(rows,
                        [id \in rows |-> links[id][incoming_or_outgoing_links_count]])]

fetch_outgoing_links_count(page_ids) ==
  fetch_links_count_helper(page_ids, "outgoing_links_count")

fetch_incoming_links_count(page_ids) ==
  fetch_links_count_helper(page_ids, "incoming_links_count")

\* fetch_links_helper with the WHERE clause lost: every row of the table.
fetch_links_helper_all_rows(page_ids, outcoming_or_incoming_links) ==
  {<<id, links[id][outcoming_or_incoming_links]>> : id \in DOMAIN links}

\* SELECT id, column FROM links WHERE id IN page_ids: the cursor over the
\* matching rows, as a set of <<id, neighbour list>>.
fetch_links_helper(page_ids, outcoming_or_incoming_links) ==
  {<<id, links[id][outcoming_or_incoming_links]>> : id \in page_ids \cap DOMAIN links}

fetch_outgoing_links(page_ids) == fetch_links_helper(page_ids, "outgoing_links")

\* fetch_incoming_links passing the column of fetch_outgoing_links.
fetch_incoming_links_wrong_column(page_ids) ==
  fetch_links_helper(page_ids, "outgoing_links")

fetch_incoming_links(page_ids) == fetch_links_helper(page_ids, "incoming_links")

\* ------------------------------------------------------------------------
\* The bidirectional breadth-first search (specification 4.2, 4.3).
\* ------------------------------------------------------------------------
IdleSearch ==
  [pc |-> "idle",
   visited_forward |-> <<>>, visited_backward |-> <<>>,
   depth_forward |-> <<>>, depth_backward |-> <<>>,
   forward_frontier |-> {}, backward_frontier |-> {},
   forward_distance |-> 0, backward_distance |-> 0,
   forward_generations |-> <<>>, backward_generations |-> <<>>,
   paths |-> EmptyBag]

\* Steps 1 and 2: the trivial path, or the two one-node visited-maps.
StartSearch(source, target) ==
  IF source = target
  THEN [IdleSearch EXCEPT !.pc = "returned", !.paths = SetToBag({<<source>>})]
  ELSE [IdleSearch EXCEPT
          !.pc = "loop",
          !.visited_forward = [n \in {source} |-> {}],
          !.visited_backward = [n \in {target} |-> {}],
          !.depth_forward = [n \in {source} |-> 0],
          !.depth_backward = [n \in {target} |-> 0],
          !.forward_frontier = {source},
          !.backward_frontier = {target},
          !.forward_generations = <<{source}>>,
          !.backward_generations = <<{target}>>]

\* Step 3a: the side to expand.  The two estimates are compared as numbers;
\* comparing None with a number (or with None) raises TypeError.
EstimateFails(st) ==
  \/ sql_syntax_error(st.forward_frontier)
  \/ sql_syntax_error(st.backward_frontier)
  \/ fetch_outgoing_links_count(st.forward_frontier).none
  \/ fetch_incoming_links_count(st.backward_frontier).none

CheaperSide(st) ==
  IF fetch_outgoing_links_count(st.forward_frontier).value
       <= fetch_incoming_links_count(st.backward_frontier).value
  THEN "forward"
  ELSE "backward"

\* Step 3b: the next generation of one direction from the fetched rows: every
\* neighbour not in the visited-map of an earlier generation, with all the
\* frontier nodes that reach it as its parents.
NextGeneration(visited, rows) ==
  {nb \in UNION {r[2] : r \in rows} : nb \notin DOMAIN visited}

ParentsIn(rows, nb) == {r[1] : r \in {x \in rows : nb \in x[2]}}

RecordParents(visited, rows) ==
  LET next == NextGeneration(visited, rows)
  IN  [n \in DOMAIN visited \cup next |->
         IF n \in next THEN ParentsIn(rows, n) ELSE visited[n]]

RecordDepths(depth, next, d) ==
  [n \in DOMAIN depth \cup next |-> IF n \in next THEN d ELSE depth[n]]

\* Steps 3b and 3c for the chosen direction.
Expand(st, direction) ==
  IF direction = "forward"
  THEN LET rows == fetch_outgoing_links(st.forward_frontier)
           next == NextGeneration(st.visited_forward, rows)
       IN  [st EXCEPT
              !.visited_forward = RecordParents(st.visited_forward, rows),
              !.depth_forward = RecordDepths(st.depth_forward, next,
                                             st.forward_distance + 1),
              !.forward_frontier = next,
              !.forward_distance = st.forward_distance + 1,
              !.forward_generations = Append(st.forward_generations, next)]
  ELSE LET rows == fetch_incoming_links(st.backward_frontier)
           next == NextGeneration(st.visited_backward, rows)
       IN  [st EXCEPT
              !.visited_backward = RecordParents(st.visited_backward, rows),
              !.depth_backward = RecordDepths(st.depth_backward, next,
                                              st.backward_distance + 1),
              !.backward_frontier = next,
              !.backward_distance = st.backward_distance + 1,
              !.backward_generations = Append(st.backward_generations, next)]

\* 4.3: every path from the root of a visited-map to node, root first.
RECURSIVE get_paths(_, _)
get_paths(node, visited) ==
  IF visited[node] = {}
  THEN {<<node>>}
  ELSE UNION {{Append(p, node) : p \in get_paths(parent, visited)} :
                parent \in visited[node]}

Reverse(s) == [i \in 1..Len(s) |-> s[Len(s) + 1 - i]]

\* The paths through one meeting node, the node written once.
PathsThrough(st, m) ==
  {from_source \o Tail(Reverse(from_target)) :
     from_source \in get_paths(m, st.visited_forward),
     from_target \in get_paths(m, st.visited_backward)}

\* The enumeration over all meeting nodes, with multiplicity.
RECURSIVE Enumerate(_, _)
Enumerate(st, meeting) ==
  IF meeting = {} THEN EmptyBag
  ELSE LET m == CHOOSE x \in meeting : TRUE
       IN  SetToBag(PathsThrough(st, m)) (+) Enumerate(st, meeting \ {m})

Deduplicate(bag) == SetToBag(BagToSet(bag))

\* Step 5: the nodes of both visited-maps whose two distances add up to the
\* meeting distance.
MeetingNodes(st) ==
  {m \in DOMAIN st.visited_forward \cap DOMAIN st.visited_backward :
     st.depth_forward[m] + st.depth_backward[m]
       = st.forward_distance + st.backward_distance}

ReconstructPaths(st) == Deduplicate(Enumerate(st, MeetingNodes(st)))

\* The walk up the parent links fails on a parent that is no key of the
\* visited-map (KeyError) and does not end on parent links that form a cycle
\* (RecursionError).
RECURSIVE Ancestors(_, _, _)
Ancestors(S, visited, k) ==
  IF k = 0 THEN S
  ELSE Ancestors(S \cup UNION {visited[n] : n \in S}, visited, k - 1)

WalkFails(visited) ==
  \/ \E n \in DOMAIN visited : ~(visited[n] \subseteq DOMAIN visited)
  \/ \E n \in DOMAIN visited :
        n \in Ancestors(visited[n], visited, Cardinality(DOMAIN visited))

ReconstructFails(st) ==
  WalkFails(st.visited_forward) \/ WalkFails(st.visited_backward)

\* Step 3d and the loop condition, after an expansion.  The two visited-maps
\* are complete up to forward_distance and backward_distance, so the first
\* non-empty intersection is at the meeting distance
\* forward_distance + backward_distance, which both sides share: no further
\* round is owed and the loop closes.
AfterExpansion(st) ==
  IF DOMAIN st.visited_forward \cap DOMAIN st.visited_backward # {}
  THEN IF ReconstructFails(st)
       THEN [st EXCEPT !.pc = "error"]
       ELSE [st EXCEPT !.pc = "returned", !.paths = ReconstructPaths(st)]
  ELSE IF st.forward_frontier = {} \/ st.backward_frontier = {}
       THEN [st EXCEPT !.pc = "returned", !.paths = EmptyBag]
       ELSE st

\* One round of the loop under a direction policy.
Round(st, pol) ==
  IF pol = "cost"
  THEN IF EstimateFails(st)
       THEN [st EXCEPT !.pc = "error"]
       ELSE AfterExpansion(Expand(st, CheaperSide(st)))
  ELSE AfterExpansion(Expand(st, pol))

\* validate_page_id: a page ID is a positive integer.
validate_page_id(page_id) == page_id \in Nat \ {0}

\* Database.compute_shortest_paths(source, target): validate both IDs, then
\* search, the side to expand chosen as pol says.
compute_shortest_paths(source, target, pol) ==
  /\ bfs.pc = "idle"
  /\ source_page_id' = source
  /\ target_page_id' = target
  /\ policy' = pol
  /\ bfs' = IF validate_page_id(source) /\ validate_page_id(target)
            THEN StartSearch(source, target)
            ELSE [bfs EXCEPT !.pc = "error"]
  /\ UNCHANGED links
  /\ UNCHANGED <<store_vars, page_vars, server_vars>>

\* One iteration of the search loop.
breadth_first_search_round ==
  /\ bfs.pc = "loop"
  /\ bfs' = Round(bfs, policy)
  /\ UNCHANGED <<links, source_page_id, target_page_id, policy>>
  /\ UNCHANGED <<store_vars, page_vars, server_vars>>

Policies == {"cost", "forward", "backward"}

\* The sets of at most MaxEdges links.
LinkSets == {E \in SUBSET AllLinks : Cardinality(E) <= MaxEdges}

\* The links tables of at most MaxEdges links over the pages 1..NumNodes; the
\* pages without any link all have an (empty) row, or none of them has.
LinksTables ==
  {LinksTable(c[1], IF c[2] THEN Nodes ELSE Linked(c[1])) :
     c \in LinkSets \X BOOLEAN}

NoSearch ==
  /\ source_page_id = 0
  /\ target_page_id = 0
  /\ policy = "none"
  /\ bfs = IdleSearch

SearchIdle == links = <<>> /\ NoSearch

NoCursor == [called |-> FALSE, page_ids |-> {}, column |-> "none",
             raised |-> FALSE, rows |-> {}]

StoreIdle == cursor = NoCursor

NoPage == [raised |-> "none", called |-> FALSE, page_id |-> 0,
           is_redirected |-> FALSE, results |-> <<>>]

PageIdle ==
  /\ pages = <<>>
  /\ redirects = <<>>
  /\ page_title = ""
  /\ fetched_page = NoPage

ServerIdle ==
  /\ database = 0
  /\ connections = <<>>
  /\ requests = <<>>
  /\ handle_log = <<>>

SearchInit == links \in LinksTables /\ NoSearch

Init == SearchInit /\ StoreIdle /\ PageIdle /\ ServerIdle

\* The search uses page IDs only through equality and set membership, and
\* LinksTables is closed under renaming the pages, so every search is a
\* renaming of one from page 1 to page 1 or to page 2.
Next ==
  \/ \E target \in {1, 2} : \E pol \in Policies :
        compute_shortest_paths(1, target, pol)
  \/ breadth_first_search_round

Spec == Init /\ [][Next]_vars

\* ------------------------------------------------------------------------
\* SpecStore: the bulk neighbour fetches, called with any collection of page
\* IDs against any links table.
\* ------------------------------------------------------------------------
CursorOf(page_ids, column, rows) ==
  IF sql_syntax_error(page_ids)
  THEN [called |-> TRUE, page_ids |-> page_ids, column |-> column,
        raised |-> TRUE, rows |-> {}]
  ELSE [called |-> TRUE, page_ids |-> page_ids, column |-> column,
        raised |-> FALSE, rows |-> rows]

call_fetch_outgoing_links(page_ids) ==
  /\ cursor' = CursorOf(page_ids, "outgoing_links", fetch_outgoing_links(page_ids))
  /\ UNCHANGED <<search_vars, page_vars, server_vars>>

call_fetch_incoming_links(page_ids) ==
  /\ cursor' = CursorOf(page_ids, "incoming_links", fetch_incoming_links(page_ids))
  /\ UNCHANGED <<search_vars, page_vars, server_vars>>

StoreInit ==
  /\ links \in LinksTables
  /\ NoSearch
  /\ StoreIdle
  /\ PageIdle
  /\ ServerIdle

StoreNext ==
  \/ \E page_ids \in SUBSET Nodes : call_fetch_outgoing_links(page_ids)
  \/ \E page_ids \in SUBSET Nodes : call_fetch_incoming_links(page_ids)

SpecStore == StoreInit /\ [][StoreNext]_vars

\* ------------------------------------------------------------------------
\* SpecPage: Database.fetch_page against a pages and a redirects table.
\* ------------------------------------------------------------------------
PageIds == 1..MaxPageId

\* Stored titles; "a" and "A" differ in case only.
Titles == {"a", "A", "b"}

\* Titles a request may name; "c" is the title of no page.
RequestTitles == Titles \cup {"c"}

\* SQL LOWER().
LOWER(title) == IF title = "A" THEN "a" ELSE title

PageRows == [title : Titles, is_redirect : BOOLEAN]

PartialFunctions(D, R) == UNION {[X -> R] : X \in SUBSET D}

Orderings(S) ==
  {order \in [1..Cardinality(S) -> S] : {order[i] : i \in DOMAIN order} = S}

ValueError == [NoPage EXCEPT !.raised = "ValueError", !.called = TRUE]

Found(page_id, is_redirected, results) ==
  [raised |-> "none", called |-> TRUE, page_id |-> page_id,
   is_redirected |-> is_redirected, results |-> results]

\* SELECT target_id, title FROM redirects INNER JOIN pages ON pages.id =
\* target_id WHERE source_id = %s; fetchone(): the target of the redirect,
\* if the redirect exists and its target is a row of pages; 0 for no row.
fetch_redirect_target(source_id) ==
  IF source_id \in DOMAIN redirects /\ redirects[source_id] \in DOMAIN pages
  THEN redirects[source_id]
  ELSE 0

\* fetch_page on the rows that SELECT * FROM pages WHERE LOWER(title) =
\* LOWER(%s) returned, in the order it returned them (a sequence of page IDs).
fetch_page_from(sanitized_page_title, results) ==
  LET exact == {i \in DOMAIN results :
                  /\ pages[results[i]].title = sanitized_page_title
                  /\ ~pages[results[i]].is_redirect}
      plain == {i \in DOMAIN results : ~pages[results[i]].is_redirect}
      First(I) == CHOOSE i \in I : \A j \in I : i <= j
  IN  IF results = <<>> THEN [ValueError EXCEPT !.results = results]
      ELSE IF exact # {} THEN Found(results[First(exact)], FALSE, results)
      ELSE IF plain # {} THEN Found(results[First(plain)], FALSE, results)
      ELSE IF fetch_redirect_target(results[1]) = 0
           THEN [ValueError EXCEPT !.results = results]
           ELSE Found(fetch_redirect_target(results[1]), TRUE, results)

Matches(title) == {id \in DOMAIN pages : LOWER(pages[id].title) = LOWER(title)}

\* Database.fetch_page: the query returns the matching rows in an order the
\* database chooses.
fetch_page ==
  /\ ~fetched_page.called
  /\ \E results \in Orderings(Matches(page_title)) :
       fetched_page' = fetch_page_from(page_title, results)
  /\ UNCHANGED <<pages, redirects, page_title>>
  /\ UNCHANGED <<search_vars, store_vars, server_vars>>

PageInit ==
  /\ SearchIdle
  /\ StoreIdle
  /\ ServerIdle
  /\ pages \in PartialFunctions(PageIds, PageRows)
  /\ redirects \in PartialFunctions(PageIds, PageIds)
  /\ page_title \in RequestTitles
  /\ fetched_page = NoPage

PageNext == fetch_page

SpecPage == PageInit /\ [][PageNext]_vars

\* ------------------------------------------------------------------------
\* SpecServer: /paths requests in flight at once.  Every request runs
\* connect_db (before_request), shortest_paths_route and close_db
\* (teardown_appcontext); the requests interleave between database calls.
\* ------------------------------------------------------------------------
Requests == 1..NumRequests

\* What fetch_page may hand back for a title that exists.
FoundPages ==
  {[page_id |-> 1, title |-> "a", is_redirected |-> FALSE],
   [page_id |-> 2, title |-> "b", is_redirected |-> TRUE]}

NoFoundPage == [page_id |-> 0, title |-> "", is_redirected |-> FALSE]

\* What the search may hand back: no path, or one path list.
PathLists == {<<>>, <<<<1, 2>>>>}

NoResponse == [status |-> "none", body |-> <<>>]

NewRequest ==
  [pc |-> "connect_db", own |-> 0,
   source |-> NoFoundPage, target |-> NoFoundPage,
   paths |-> <<>>, response |-> <<>>,
   insert |-> "not_run", returned |-> NoResponse]

\* InvalidRequest, through invalid_request_handler.
InvalidRequest == [status |-> "invalid_request", body |-> <<>>]

\* Any other exception, through unhandled_exception_handler.
InternalServerError == [status |-> "internal_server_error", body |-> <<>>]

\* The response dictionary of shortest_paths_route.
BuildResponse(source, target, paths, pages_info) ==
  [sourcePageTitle |-> source.title,
   targetPageTitle |-> target.title,
   isSourceRedirected |-> source.is_redirected,
   isTargetRedirected |-> target.is_redirected,
   paths |-> paths,
   pages |-> IF Len(paths) = 0 THEN "none" ELSE pages_info]

\* return jsonify(response).
jsonify(response) == [status |-> "ok", body |-> response]

\* The handler without the try/except: the exception of insert_result reaches
\* unhandled_exception_handler.
after_insert_result_uncaught(response, raised) ==
  IF raised THEN InternalServerError ELSE jsonify(response)

\* The try/except around database.insert_result and the return after it:
\* an exception is logged and the response is returned all the same.
after_insert_result(response, raised) == jsonify(response)

\* connect_db: a new handle replaces the module global.  (The connection is
\* taken to succeed; a server that cannot reach its database serves nothing.)
connect_db(r) ==
  /\ requests[r].pc = "connect_db"
  /\ LET handle == Cardinality(DOMAIN connections) + 1
     IN  /\ connections' = [h \in DOMAIN connections \cup {handle} |->
                              IF h = handle THEN "open" ELSE connections[h]]
         /\ handle_log' = [h \in DOMAIN handle_log \cup {handle} |->
                              IF h = handle THEN {} ELSE handle_log[h]]
         /\ database' = handle
         /\ requests' = [requests EXCEPT ![r].own = handle,
                                         ![r].pc = "fetch_source"]
  /\ UNCHANGED <<search_vars, store_vars, page_vars>>

\* A call on the handle the global names now; it raises when that handle has
\* been closed.
HandleClosed == connections[database] = "closed"

\* An exception leaves the handler: its locals are gone and the error
\* handler's response is returned.
Fail(req, response) ==
  [NewRequest EXCEPT !.own = req.own, !.returned = response, !.pc = "close_db"]

\* database.fetch_page(request.json['source']).
fetch_source(r) ==
  /\ requests[r].pc = "fetch_source"
  /\ \/ /\ HandleClosed
        /\ requests' = [requests EXCEPT
                          ![r] = Fail(requests[r], InternalServerError)]
     \/ /\ ~HandleClosed
        /\ \/ requests' = [requests EXCEPT
                             ![r] = Fail(requests[r], InvalidRequest)]
           \/ \E page \in FoundPages :
                requests' = [requests EXCEPT
                               ![r] = [requests[r] EXCEPT
                                         !.source = page, !.pc = "fetch_target"]]
  /\ UNCHANGED <<database, connections, handle_log>>
  /\ UNCHANGED <<search_vars, store_vars, page_vars>>

\* database.fetch_page(request.json['target']).
fetch_target(r) ==
  /\ requests[r].pc = "fetch_target"
  /\ \/ /\ HandleClosed
        /\ requests' = [requests EXCEPT
                          ![r] = Fail(requests[r], InternalServerError)]
     \/ /\ ~HandleClosed
        /\ \/ requests' = [requests EXCEPT
                             ![r] = Fail(requests[r], InvalidRequest)]
           \/ \E page \in FoundPages :
                requests' = [requests EXCEPT
                               ![r] = [requests[r] EXCEPT
                                         !.target = page, !.pc = "search"]]
  /\ UNCHANGED <<database, connections, handle_log>>
  /\ UNCHANGED <<search_vars, store_vars, page_vars>>

\* database.compute_shortest_paths and the response dictionary; for a
\* non-empty result, fetch_wikipedia_pages_info, which may raise.
search(r) ==
  /\ requests[r].pc = "search"
  /\ \/ /\ HandleClosed
        /\ requests' = [requests EXCEPT
                          ![r] = Fail(requests[r], InternalServerError)]
     \/ /\ ~HandleClosed
        /\ \/ requests' = [requests EXCEPT
                             ![r] = Fail(requests[r], InternalServerError)]
           \/ \E paths \in PathLists :
                requests' = [requests EXCEPT
                               ![r] = [requests[r] EXCEPT
                                         !.paths = paths,
                                         !.response =
                                            BuildResponse(requests[r].source,
                                                          requests[r].target,
                                                          paths, "pages_info"),
                                         !.pc = "insert_result"]]
  /\ UNCHANGED <<database, connections, handle_log>>
  /\ UNCHANGED <<search_vars, store_vars, page_vars>>

\* database.insert_result inside try/except, then return jsonify(response).
insert_result(r) ==
  /\ requests[r].pc = "insert_result"
  /\ \E raised \in (IF HandleClosed THEN {TRUE} ELSE BOOLEAN) :
       requests' = [requests EXCEPT
                      ![r] = [requests[r] EXCEPT
                                !.insert = IF raised THEN "raised" ELSE "ok",
                                !.returned =
                                   after_insert_result(requests[r].response, raised),
                                !.pc = "close_db"]]
  /\ UNCHANGED <<database, connections, handle_log>>
  /\ UNCHANGED <<search_vars, store_vars, page_vars>>

\* close_db: closes the handle the module global names now; the request and
\* its locals are gone.
close_db(r) ==
  /\ requests[r].pc = "close_db"
  /\ connections' = [connections EXCEPT ![database] = "closed"]
  /\ handle_log' = [handle_log EXCEPT ![database] = @ \cup {r}]
  /\ requests' = [requests EXCEPT
                    ![r] = [NewRequest EXCEPT
                              !.pc = "done",
                              !.own = requests[r].own]]
  /\ UNCHANGED database
  /\ UNCHANGED <<search_vars, store_vars, page_vars>>

ServerInit ==
  /\ SearchIdle
  /\ StoreIdle
  /\ PageIdle
  /\ database = 0
  /\ connections = <<>>
  /\ handle_log = <<>>
  /\ requests = [r \in Requests |-> NewRequest]

ServerNext ==
  \E r \in Requests :
     \/ connect_db(r)
     \/ fetch_source(r)
     \/ fetch_target(r)
     \/ search(r)
     \/ insert_result(r)
     \/ close_db(r)

SpecServer == ServerInit /\ [][ServerNext]_vars

\* A search that has been started is run to its end: the loop has no
\* suspension point at which it is abandoned.
FairSpec == Init /\ [][Next]_vars /\ WF_vars(Next)

\* ------------------------------------------------------------------------
\* The graph-theoretic reference: shortest paths by exhaustive enumeration
\* of the simple paths of the stored link set.
\* ------------------------------------------------------------------------
RECURSIVE SimplePaths(_)
SimplePaths(k) ==
  IF k = 0 THEN {<<source_page_id>>}
  ELSE UNION {{Append(p, e[2]) :
                 e \in {x \in Edges : /\ x[1] = p[Len(p)]
                                      /\ \A i \in 1..Len(p) : p[i] # x[2]}} :
              p \in SimplePaths(k - 1)}

PathsToTarget ==
  {p \in UNION {SimplePaths(k) : k \in 0..(NumNodes - 1)} :
     p[Len(p)] = target_page_id}

ShortestPaths ==
  {p \in PathsToTarget : \A q \in PathsToTarget : Len(p) <= Len(q)}

Reachable == PathsToTarget # {}

IsPath(p) ==
  /\ Len(p) >= 1
  /\ p[1] = source_page_id
  /\ p[Len(p)] = target_page_id
  /\ \A i \in 1..(Len(p) - 1) : <<p[i], p[i + 1]>> \in Edges

Finished == bfs.pc \in {"returned", "error"}

\* The search run to its end under a direction policy.
RECURSIVE RunSearch(_, _)
RunSearch(st, pol) ==
  IF st.pc # "loop" THEN st ELSE RunSearch(Round(st, pol), pol)

ResultUnder(pol) == RunSearch(StartSearch(source_page_id, target_page_id), pol)

\* C1: for every links table and every pair of pages, the engine's search
\* returns exactly the set of all shortest source-to-target paths, each once.
C1_ExactlyAllShortestPaths ==
  (policy = "cost" /\ Finished) =>
     /\ bfs.pc = "returned"
     /\ bfs.paths = SetToBag(ShortestPaths)

\* C1 restricted to the searches whose estimates never meet a missing row.
C1_WhenReturned ==
  (bfs.pc = "returned") => bfs.paths = SetToBag(ShortestPaths)

\* C2: for a reachable pair, every returned path is an edge-by-edge path from
\* source to target with as many edges as the graph distance, under every
\* direction policy (whichever side meets first).
C2_ReturnedPathsAreShortest ==
  (bfs.pc = "returned" /\ Reachable) =>
     \A p \in BagToSet(bfs.paths) :
        /\ IsPath(p)
        /\ \A q \in PathsToTarget : Len(p) <= Len(q)

\* The chain 1 -> 3 -> 4 -> 2 with the shortcut 1 -> 2, searched from 1 to 2
\* by the engine: the result is the shortcut alone.
C2_Witness ==
  /\ Edges = {<<1, 3>>, <<3, 4>>, <<4, 2>>, <<1, 2>>}
  /\ source_page_id = 1 /\ target_page_id = 2
  /\ policy = "cost"
  /\ bfs.pc = "returned"
  /\ BagToSet(bfs.paths) = {<<1, 2>>}

\* C3: for source # target with the target unreachable, the engine's search
\* never ends in an error and returns the empty list.
C3_UnreachableIsEmptyNotError ==
  (policy = "cost" /\ source_page_id # target_page_id /\ ~Reachable) =>
     /\ bfs.pc # "error"
     /\ (bfs.pc = "returned" => bfs.paths = EmptyBag)

\* C4: every search of the engine eventually returns a path list.
C4_EventuallyReturns ==
  (policy = "cost" /\ bfs.pc = "loop") ~> (bfs.pc = "returned")

\* C4 for the loop alone: every search of the engine eventually leaves the
\* loop, with a path list or with an error.
C4_EventuallyStops ==
  (policy = "cost" /\ bfs.pc = "loop") ~> (bfs.pc \in {"returned", "error"})

\* C5: the engine's result is the result of always expanding forward and of
\* always expanding backward.
C5_DirectionDoesNotMatter ==
  (policy = "cost" /\ Finished) =>
     /\ bfs.pc = "returned"
     /\ bfs.paths = ResultUnder("forward").paths
     /\ bfs.paths = ResultUnder("backward").paths

\* C5 restricted to the searches that return.
C5_WhenReturned ==
  (bfs.pc = "returned") =>
     /\ bfs.paths = ResultUnder("forward").paths
     /\ bfs.paths = ResultUnder("backward").paths

\* C10: per direction, the frontier generations are pairwise disjoint, every
\* visited node lies in exactly the generation of its depth, its parents are
\* nodes of the generation before, and a round neither changes the parents of
\* an already visited node nor puts it into the new frontier.
GenerationsOk(visited, depth, generations, frontier, distance) ==
  /\ Len(generations) = distance + 1
  /\ frontier = generations[Len(generations)]
  /\ \A i, j \in 1..Len(generations) :
        i # j => generations[i] \cap generations[j] = {}
  /\ DOMAIN visited = UNION {generations[i] : i \in 1..Len(generations)}
  /\ DOMAIN depth = DOMAIN visited
  /\ \A n \in DOMAIN visited :
        /\ n \in generations[depth[n] + 1]
        /\ (depth[n] = 0 => visited[n] = {})
        /\ (depth[n] > 0 => /\ visited[n] # {}
                            /\ visited[n] \subseteq generations[depth[n]])

C10_Generations ==
  (bfs.pc # "idle" /\ source_page_id # target_page_id) =>
     /\ GenerationsOk(bfs.visited_forward, bfs.depth_forward,
                      bfs.forward_generations, bfs.forward_frontier,
                      bfs.forward_distance)
     /\ GenerationsOk(bfs.visited_backward, bfs.depth_backward,
                      bfs.backward_generations, bfs.backward_frontier,
                      bfs.backward_distance)

NeverRevisited(visited, visited_next, frontier, frontier_next) ==
  \A n \in DOMAIN visited :
     /\ n \in DOMAIN visited_next
     /\ visited_next[n] = visited[n]
     /\ (frontier_next # frontier => n \notin frontier_next)

C10_RoundKeepsVisited ==
  (bfs.pc = "loop") =>
     /\ NeverRevisited(bfs.visited_forward, bfs'.visited_forward,
                       bfs.forward_frontier, bfs'.forward_frontier)
     /\ NeverRevisited(bfs.visited_backward, bfs'.visited_backward,
                       bfs.backward_frontier, bfs'.backward_frontier)

C10_OneGenerationPerNode == []C10_Generations /\ [][C10_RoundKeepsVisited]_vars

\* A diamond 1 -> {3, 4} -> 2 searched forward twice: page 2 is in the second
\* forward generation with both 3 and 4 as parents.
C10_Witness ==
  /\ bfs.pc # "idle"
  /\ source_page_id = 1 /\ target_page_id = 2
  /\ bfs.forward_distance = 2
  /\ 2 \in DOMAIN bfs.visited_forward
  /\ bfs.visited_forward[2] = {3, 4}

\* C3 (witness of the failing case): the engine's estimate met a frontier
\* with no row and the search ended in an error.
C3_ErrorReached ==
  /\ policy = "cost"
  /\ source_page_id # target_page_id
  /\ bfs.pc = "error"

\* C6: once the search has produced its paths, the handler returns the
\* response built from them, whether insert_result raised or not.
C6_InsertFailureKeepsResponse ==
  \A r \in Requests :
     requests[r].insert \in {"ok", "raised"} =>
        requests[r].returned =
           [status |-> "ok",
            body |-> BuildResponse(requests[r].source, requests[r].target,
                                   requests[r].paths, "pages_info")]

\* A request whose insert_result raised and which has returned its paths.
C6_Witness ==
  \E r \in Requests :
     /\ requests[r].insert = "raised"
     /\ requests[r].pc = "close_db"
     /\ requests[r].returned.status = "ok"
     /\ requests[r].returned.body.paths = <<<<1, 2>>>>

\* C7: fetch_page raises ValueError for a title matching no page, and
\* otherwise raises ValueError or returns the ID of a page of the table that
\* is no redirect, with the flag true exactly when no matching row was a
\* non-redirect page and the redirect of the first row was followed.
C7_CanonicalNonRedirect ==
  fetched_page.called =>
     /\ (Matches(page_title) = {} => fetched_page.raised = "ValueError")
     /\ (fetched_page.raised = "none" =>
           /\ fetched_page.page_id \in DOMAIN pages
           /\ ~pages[fetched_page.page_id].is_redirect
           /\ (fetched_page.is_redirected <=>
                 \A id \in Matches(page_title) : pages[id].is_redirect)
           /\ (fetched_page.is_redirected =>
                 /\ fetched_page.results[1] \in DOMAIN redirects
                 /\ redirects[fetched_page.results[1]] = fetched_page.page_id)
           /\ (~fetched_page.is_redirected =>
                 fetched_page.page_id \in Matches(page_title)))

\* C7 without the clause that fails: everything but the returned page being
\* a non-redirect.
C7_ExceptRedirectTarget ==
  fetched_page.called =>
     /\ (Matches(page_title) = {} => fetched_page.raised = "ValueError")
     /\ (fetched_page.raised = "none" =>
           /\ fetched_page.page_id \in DOMAIN pages
           /\ (~fetched_page.is_redirected =>
                 ~pages[fetched_page.page_id].is_redirect)
           /\ (fetched_page.is_redirected <=>
                 \A id \in Matches(page_title) : pages[id].is_redirect)
           /\ (fetched_page.is_redirected =>
                 /\ fetched_page.results[1] \in DOMAIN redirects
                 /\ redirects[fetched_page.results[1]] = fetched_page.page_id)
           /\ (~fetched_page.is_redirected =>
                 fetched_page.page_id \in Matches(page_title)))

\* C8: a bulk neighbour fetch returns one entry for every requested ID, with
\* the neighbours of that page in the requested direction (none for a page
\* without links in that direction).
C8_EntryForEveryRequestedId ==
  (cursor.called /\ ~cursor.raised) =>
     /\ {row[1] : row \in cursor.rows} = cursor.page_ids
     /\ \A row \in cursor.rows :
           row[2] = IF cursor.column = "outgoing_links"
                    THEN {e[2] : e \in {x \in Edges : x[1] = row[1]}}
                    ELSE {e[1] : e \in {x \in Edges : x[2] = row[1]}}

\* C8 for the pages that have a row.
C8_EntryForEveryStoredId ==
  (cursor.called /\ ~cursor.raised) =>
     /\ {row[1] : row \in cursor.rows} = cursor.page_ids \cap DOMAIN links
     /\ \A row \in cursor.rows :
           row[2] = IF cursor.column = "outgoing_links"
                    THEN {e[2] : e \in {x \in Edges : x[1] = row[1]}}
                    ELSE {e[1] : e \in {x \in Edges : x[2] = row[1]}}

\* C9: from its connect_db to its close_db a request finds its own handle
\* in the module global, open, so that every call it makes runs on its own
\* open handle; a handle is closed by the close_db of the request that
\* opened it and by no other; and a finished request has closed its own.
InFlight(r) == requests[r].pc \notin {"connect_db", "done"}

====
